---- MODULE Spec2Model ----
(***************************************************************************)
(* A model of src/FIS.py: the FIS wrapper around a fuzzylite engine.       *)
(*                                                                         *)
(*   - the membership-function synthesizers (_create_triangular_mf,        *)
(*     _create_trapezoid_mf, _create_gaussian_mf) as operators over exact  *)
(*     rationals (Python's float arithmetic without rounding);             *)
(*   - the variable builders create_input_variable/create_output_variable; *)
(*   - the engine configuration (variable lists, rule blocks), rule        *)
(*     assignment and inference as a state machine.                        *)
(***************************************************************************)
EXTENDS Integers, Sequences, FiniteSets, TLC

VARIABLES
    \* ---- the FIS object (FIS.__init__, src/FIS.py:36-42)
    input_variables,   \* self.engine.input_variables: sequence of variables
    output_variables,  \* self.engine.output_variables: sequence of variables
    rule_block,        \* self.rule_block: None or a reference to a RuleBlock
    heap,              \* the RuleBlock objects created so far: reference -> rules
    rule_blocks,       \* self.engine.rule_blocks: sequence of references
    output,            \* self.output
    last,              \* the last call on the FIS object and how it ended
    \* ---- a caller of the synthesizers and of the variable builders
    labels,            \* variable_labels
    minimum,           \* variable_minimum
    maximum,           \* variable_maximum
    ratio,             \* ratio
    overlap,           \* overlap
    mfs,               \* the last synthesizer call and its result
    mfsPrev,           \* the synthesizer call before it
    ret,               \* the last builder call and what it returned
    \* ---- callers running inference concurrently
    instances,         \* the FIS objects of these callers
    calls              \* each caller's inference call: its position and locals

vars == <<input_variables, output_variables, rule_block, heap, rule_blocks,
          output, last, labels, minimum, maximum, ratio, overlap, mfs, mfsPrev, ret,
          instances, calls>>

fisVars == <<input_variables, output_variables, rule_block, heap, rule_blocks,
             output, last>>

argVars == <<labels, minimum, maximum, ratio, overlap>>

concVars == <<instances, calls>>

----------------------------------------------------------------------------
(* Bounds of the model.                                                    *)

MaxLabels == 3      \* label sequences of length 0..MaxLabels
MaxBound == 2       \* universe bounds are integers in -1..MaxBound
MaxOverlap == 2     \* overlap is k/2 for k in 0..MaxOverlap
RatioSteps == 4     \* ratio is k/RatioSteps for k in 0..RatioSteps

----------------------------------------------------------------------------
(* Exact rational arithmetic: the numbers the Python expressions denote.   *)
(* A number is [n |-> numerator, d |-> denominator] in lowest terms, d > 0.*)

Abs(x) == IF x < 0 THEN -x ELSE x

RECURSIVE Gcd(_, _)
Gcd(a, b) == IF b = 0 THEN a ELSE Gcd(b, a % b)

Rat(n, d) ==
    LET g == Gcd(Abs(n), Abs(d))
        s == IF d < 0 THEN -1 ELSE 1
    IN  [n |-> (s * n) \div g, d |-> (s * d) \div g]

I(k) == [n |-> k, d |-> 1]

RAdd(x, y) == Rat(x.n * y.d + y.n * x.d, x.d * y.d)
RSub(x, y) == Rat(x.n * y.d - y.n * x.d, x.d * y.d)
RMul(x, y) == Rat(x.n * y.n, x.d * y.d)
RDiv(x, y) == Rat(x.n * y.d, x.d * y.n)
RLe(x, y) == x.n * y.d <= y.n * x.d
RLt(x, y) == x.n * y.d < y.n * x.d

Half == Rat(1, 2)

\* Python's None, and fuzzylite's nan (the value of a variable never set).
None == [kind |-> "None"]
nan == [n |-> 0, d |-> 0]

----------------------------------------------------------------------------
(* The membership-function synthesizers.  Each takes the label sequence,   *)
(* the universe and the overlap (the trapezoid also the ratio) and returns *)
(* one term per label; the loop index i of the code is k - 1 here.         *)

Step_one_more(lbls, lo, hi) == RDiv(RSub(hi, lo), I(Len(lbls) + 1))

\* step = range_size / n
Step(lbls, lo, hi) == RDiv(RSub(hi, lo), I(Len(lbls)))

\* minimum + step * (k + overlap): the feet and shoulders of every shape
At(lbls, lo, hi, k) == RAdd(lo, RMul(Step(lbls, lo, hi), k))

Triangle(name, a, b, c) == [kind |-> "Triangle", name |-> name, a |-> a, b |-> b, c |-> c]

Trapezoid(name, a, b, c, d) ==
    [kind |-> "Trapezoid", name |-> name, a |-> a, b |-> b, c |-> c, d |-> d]

Gaussian(name, mean, std_dev) ==
    [kind |-> "Gaussian", name |-> name, mean |-> mean, std_dev |-> std_dev]

\* _create_triangular_mf as it would be if only the boundary terms widened.
_create_triangular_mf_boundary_only(lbls, lo, hi, ov) ==
    LET n == Len(lbls)
        term(i) ==
            IF i = 0 THEN
                Triangle(lbls[i + 1], lo, lo, At(lbls, lo, hi, RAdd(I(1), ov)))
            ELSE IF i = n - 1 THEN
                Triangle(lbls[i + 1], At(lbls, lo, hi, RSub(I(i), ov)), hi, hi)
            ELSE
                LET a == At(lbls, lo, hi, I(i + 0))
                    c == At(lbls, lo, hi, I(i + 1))
                    b == RMul(Half, RAdd(c, a))
                IN  Triangle(lbls[i + 1], a, b, c)
    IN  [k \in 1..n |-> term(k - 1)]

_create_triangular_mf(lbls, lo, hi, ov) ==
    LET n == Len(lbls)
        term(i) ==
            IF i = 0 THEN
                Triangle(lbls[i + 1], lo, lo, At(lbls, lo, hi, RAdd(I(1), ov)))
            ELSE IF i = n - 1 THEN
                Triangle(lbls[i + 1], At(lbls, lo, hi, RSub(I(i), ov)), hi, hi)
            ELSE
                LET a == At(lbls, lo, hi, RSub(I(i + 0), ov))
                    c == At(lbls, lo, hi, RAdd(I(i + 1), ov))
                    b == RMul(Half, RAdd(c, a))
                IN  Triangle(lbls[i + 1], a, b, c)
    IN  [k \in 1..n |-> term(k - 1)]

\* The last term's left shoulder, b = (a + d) * ratio.
TrapezoidLastB(a, d, r) == RMul(RAdd(a, d), r)

_create_trapezoid_mf(lbls, lo, hi, r, ov) ==
    LET n == Len(lbls)
        term(i) ==
            IF i = 0 THEN
                LET a == lo
                    b == lo
                    d == At(lbls, lo, hi, RAdd(I(1), ov))
                    half_top == RMul(r, RSub(d, a))
                    c == RAdd(lo, half_top)
                IN  Trapezoid(lbls[i + 1], a, b, c, d)
            ELSE IF i = n - 1 THEN
                LET a == At(lbls, lo, hi, RSub(I(i), ov))
                    c == hi
                    d == hi
                    b == TrapezoidLastB(a, d, r)
                IN  Trapezoid(lbls[i + 1], a, b, c, d)
            ELSE
                LET a == At(lbls, lo, hi, RSub(I(i + 0), ov))
                    d == At(lbls, lo, hi, RAdd(I(i + 1), ov))
                    mid == RMul(RAdd(d, a), Half)
                    half_top == RMul(RMul(r, RSub(d, a)), Half)
                    b == RSub(mid, half_top)
                    c == RAdd(mid, half_top)
                IN  Trapezoid(lbls[i + 1], a, b, c, d)
    IN  [k \in 1..n |-> term(k - 1)]

_create_gaussian_mf_abs(lbls, lo, hi, ov) ==
    LET n == Len(lbls)
        Three == I(3)
        spread(x) == IF RLt(x, I(0)) THEN RSub(I(0), x) ELSE x
        term(i) ==
            IF i = 0 THEN
                LET c == At(lbls, lo, hi, RAdd(I(1), ov))
                IN  Gaussian(lbls[i + 1], lo, RDiv(spread(RSub(lo, c)), Three))
            ELSE IF i = n - 1 THEN
                LET a == At(lbls, lo, hi, RSub(I(i), ov))
                IN  Gaussian(lbls[i + 1], hi, RDiv(spread(RSub(hi, a)), Three))
            ELSE
                LET a == At(lbls, lo, hi, RSub(I(i + 0), ov))
                    c == At(lbls, lo, hi, RAdd(I(i + 1), ov))
                    b == RMul(Half, RAdd(c, a))
                IN  Gaussian(lbls[i + 1], b, RDiv(spread(RSub(b, c)), Three))
    IN  [k \in 1..n |-> term(k - 1)]

_create_gaussian_mf(lbls, lo, hi, ov) ==
    LET n == Len(lbls)
        Three == I(3)
        term(i) ==
            IF i = 0 THEN
                LET c == At(lbls, lo, hi, RAdd(I(1), ov))
                    mean == lo
                    std_dev == RDiv(RSub(mean, c), Three)
                IN  Gaussian(lbls[i + 1], mean, std_dev)
            ELSE IF i = n - 1 THEN
                LET a == At(lbls, lo, hi, RSub(I(i), ov))
                    mean == hi
                    std_dev == RDiv(RSub(mean, a), Three)
                IN  Gaussian(lbls[i + 1], mean, std_dev)
            ELSE
                LET a == At(lbls, lo, hi, RSub(I(i + 0), ov))
                    c == At(lbls, lo, hi, RAdd(I(i + 1), ov))
                    b == RMul(Half, RAdd(c, a))
                    mean == b
                    std_dev == RDiv(RSub(mean, c), Three)
                IN  Gaussian(lbls[i + 1], mean, std_dev)
    IN  [k \in 1..n |-> term(k - 1)]

----------------------------------------------------------------------------
(* The inputs a caller may pass.                                           *)

LabelPool == <<"low", "average", "high", "very_high", "extreme", "top">>

LabelSeqs == { SubSeq(LabelPool, 1, n) : n \in 0..MaxLabels }

Bounds == { I(k) : k \in -1..MaxBound }

Overlaps == { Rat(k, 2) : k \in 0..MaxOverlap }

Ratios == { Rat(k, RatioSteps) : k \in 0..RatioSteps }

\* What auto_mf_type may be: unset, a supported shape, an unsupported one.
Shapes == {"triangular", "gaussian", "trapezoid"}
ShapeArgs == {"None", "bell"} \cup Shapes

\* What terms may be: unset, or a sequence of terms the caller built.
Some(v) == [kind |-> "Some", v |-> v]

UserTerms ==
    { <<Triangle("cold", I(0), I(1), I(2))>>,
      <<Trapezoid("cold", I(0), I(0), I(1), I(2)), Triangle("hot", I(1), I(2), I(2))>> }

TermArgs == {None} \cup { Some(t) : t \in UserTerms }

Names == {"x", "y"}

\* variable_name: str = ""
DefaultName == ""

----------------------------------------------------------------------------
(* The variable builders.  A call ends by returning a value or by raising; *)
(* the outcome is [raised |-> the exception or "none", value |-> what was  *)
(* returned (None when the call raised or fell off the end of the body)].  *)

Returned(v) == [raised |-> "none", value |-> v]
Raised(e) == [raised |-> e, value |-> None]

InputVariable(name, lo, hi, terms) ==
    [kind |-> "InputVariable", name |-> name, minimum |-> lo, maximum |-> hi,
     terms |-> terms, value |-> nan]

OutputVariable(name, lo, hi, terms) ==
    [kind |-> "OutputVariable", name |-> name, minimum |-> lo, maximum |-> hi,
     terms |-> terms, value |-> nan]

\* step = range_size / n raises ZeroDivisionError on an empty label sequence
DivisionRaises(lbls) == Len(lbls) = 0

\* create_output_variable as it would be without the check of lines 248-251.
create_output_variable_unchecked(name, lo, hi, r, lbls, auto_mf_type, terms, ov) ==
    IF auto_mf_type = "None" /\ terms # None THEN
        Returned(OutputVariable(name, lo, hi, terms.v))
    ELSE IF auto_mf_type = "triangular" THEN
        IF DivisionRaises(lbls) THEN Raised("ZeroDivisionError")
        ELSE Returned(OutputVariable(name, lo, hi,
                                     _create_triangular_mf(lbls, lo, hi, ov)))
    ELSE IF auto_mf_type = "gaussian" THEN
        IF DivisionRaises(lbls) THEN Raised("ZeroDivisionError")
        ELSE Returned(OutputVariable(name, lo, hi,
                                     _create_gaussian_mf(lbls, lo, hi, ov)))
    ELSE IF auto_mf_type = "trapezoid" THEN
        IF DivisionRaises(lbls) THEN Raised("ZeroDivisionError")
        ELSE Returned(OutputVariable(name, lo, hi,
                                     _create_trapezoid_mf(lbls, lo, hi, r, ov)))
    ELSE
        Returned(None)

create_output_variable(name, lo, hi, r, lbls, auto_mf_type, terms, ov) ==
    IF auto_mf_type = "None" /\ terms = None THEN
        Raised("ValueError")
    ELSE IF auto_mf_type = "None" /\ terms # None THEN
        Returned(OutputVariable(name, lo, hi, terms.v))
    ELSE IF auto_mf_type = "triangular" THEN
        IF DivisionRaises(lbls) THEN Raised("ZeroDivisionError")
        ELSE Returned(OutputVariable(name, lo, hi,
                                     _create_triangular_mf(lbls, lo, hi, ov)))
    ELSE IF auto_mf_type = "gaussian" THEN
        IF DivisionRaises(lbls) THEN Raised("ZeroDivisionError")
        ELSE Returned(OutputVariable(name, lo, hi,
                                     _create_gaussian_mf(lbls, lo, hi, ov)))
    ELSE IF auto_mf_type = "trapezoid" THEN
        IF DivisionRaises(lbls) THEN Raised("ZeroDivisionError")
        ELSE Returned(OutputVariable(name, lo, hi,
                                     _create_trapezoid_mf(lbls, lo, hi, r, ov)))
    ELSE
        Returned(None)

\* create_input_variable as it would be if explicit terms came first.
create_input_variable_terms_first(name, lo, hi, r, lbls, auto_mf_type, terms, ov) ==
    IF auto_mf_type = "None" /\ terms = None THEN
        Raised("ValueError")
    ELSE IF terms # None THEN
        Returned(InputVariable(name, lo, hi, terms.v))
    ELSE IF auto_mf_type = "triangular" THEN
        IF DivisionRaises(lbls) THEN Raised("ZeroDivisionError")
        ELSE Returned(InputVariable(name, lo, hi,
                                    _create_triangular_mf(lbls, lo, hi, ov)))
    ELSE IF auto_mf_type = "gaussian" THEN
        IF DivisionRaises(lbls) THEN Raised("ZeroDivisionError")
        ELSE Returned(InputVariable(name, lo, hi,
                                    _create_gaussian_mf(lbls, lo, hi, ov)))
    ELSE IF auto_mf_type = "trapezoid" THEN
        IF DivisionRaises(lbls) THEN Raised("ZeroDivisionError")
        ELSE Returned(InputVariable(name, lo, hi,
                                    _create_trapezoid_mf(lbls, lo, hi, r, ov)))
    ELSE
        Returned(None)

create_input_variable(name, lo, hi, r, lbls, auto_mf_type, terms, ov) ==
    IF auto_mf_type = "None" /\ terms = None THEN
        Raised("ValueError")
    ELSE IF auto_mf_type = "None" /\ terms # None THEN
        Returned(InputVariable(name, lo, hi, terms.v))
    ELSE IF auto_mf_type = "triangular" THEN
        IF DivisionRaises(lbls) THEN Raised("ZeroDivisionError")
        ELSE Returned(InputVariable(name, lo, hi,
                                    _create_triangular_mf(lbls, lo, hi, ov)))
    ELSE IF auto_mf_type = "gaussian" THEN
        IF DivisionRaises(lbls) THEN Raised("ZeroDivisionError")
        ELSE Returned(InputVariable(name, lo, hi,
                                    _create_gaussian_mf(lbls, lo, hi, ov)))
    ELSE IF auto_mf_type = "trapezoid" THEN
        IF DivisionRaises(lbls) THEN Raised("ZeroDivisionError")
        ELSE Returned(InputVariable(name, lo, hi,
                                    _create_trapezoid_mf(lbls, lo, hi, r, ov)))
    ELSE
        Returned(None)

----------------------------------------------------------------------------
(* The FIS object after construction, and the caller's arguments.          *)

FisInit ==
    /\ input_variables = <<>>
    /\ output_variables = <<>>
    /\ rule_block = None
    /\ heap = <<>>
    /\ rule_blocks = <<>>
    /\ output = I(0)
    /\ last = [op |-> "__init__"]

ArgsInit ==
    /\ labels \in LabelSeqs
    /\ minimum \in Bounds
    /\ maximum \in Bounds
    /\ RLt(minimum, maximum)
    /\ ratio \in Ratios

NoCall == [fn |-> "none"]

\* No caller runs inference concurrently.
NoCallers ==
    /\ instances = <<>>
    /\ calls = <<>>

----------------------------------------------------------------------------
(* SpecSynth: a caller applies the synthesizers to its arguments.          *)

Synthesized(fn, ov, terms) ==
    IF DivisionRaises(labels)
    THEN [fn |-> fn, overlap |-> ov, raised |-> "ZeroDivisionError", terms |-> <<>>]
    ELSE [fn |-> fn, overlap |-> ov, raised |-> "none", terms |-> terms]

CallTriangular ==
    \E ov \in Overlaps :
        /\ mfs' = Synthesized("_create_triangular_mf", ov,
                              _create_triangular_mf(labels, minimum, maximum, ov))
        /\ mfsPrev' = mfs
        /\ UNCHANGED <<fisVars, argVars, ret, concVars>>

CallTrapezoid ==
    \E ov \in Overlaps :
        /\ mfs' = Synthesized("_create_trapezoid_mf", ov,
                              _create_trapezoid_mf(labels, minimum, maximum, ratio, ov))
        /\ mfsPrev' = mfs
        /\ UNCHANGED <<fisVars, argVars, ret, concVars>>

CallGaussian ==
    \E ov \in Overlaps :
        /\ mfs' = Synthesized("_create_gaussian_mf", ov,
                              _create_gaussian_mf(labels, minimum, maximum, ov))
        /\ mfsPrev' = mfs
        /\ UNCHANGED <<fisVars, argVars, ret, concVars>>

SynthInit ==
    /\ FisInit
    /\ ArgsInit
    /\ overlap = I(0)
    /\ mfs = NoCall
    /\ mfsPrev = NoCall
    /\ ret = NoCall
    /\ NoCallers

SynthNext == CallTriangular \/ CallTrapezoid \/ CallGaussian

SpecSynth == SynthInit /\ [][SynthNext]_vars

----------------------------------------------------------------------------
(* SpecBuild: a caller applies the variable builders to its arguments.     *)

Built(fn, auto_mf_type, terms, outcome) ==
    [fn |-> fn, auto_mf_type |-> auto_mf_type, terms |-> terms,
     raised |-> outcome.raised, value |-> outcome.value]

CreateInputVariable ==
    \E auto_mf_type \in ShapeArgs, terms \in TermArgs :
        /\ ret' = Built("create_input_variable", auto_mf_type, terms,
                        create_input_variable(DefaultName, minimum, maximum, ratio, labels,
                                              auto_mf_type, terms, overlap))
        /\ UNCHANGED <<fisVars, argVars, mfs, mfsPrev, concVars>>

CreateOutputVariable ==
    \E auto_mf_type \in ShapeArgs, terms \in TermArgs :
        /\ ret' = Built("create_output_variable", auto_mf_type, terms,
                        create_output_variable(DefaultName, minimum, maximum, ratio, labels,
                                               auto_mf_type, terms, overlap))
        /\ UNCHANGED <<fisVars, argVars, mfs, mfsPrev, concVars>>

BuildInit ==
    /\ FisInit
    /\ ArgsInit
    /\ overlap \in Overlaps
    /\ mfs = NoCall
    /\ mfsPrev = NoCall
    /\ ret = NoCall
    /\ NoCallers

BuildNext == CreateInputVariable \/ CreateOutputVariable

SpecBuild == BuildInit /\ [][BuildNext]_vars

----------------------------------------------------------------------------
(* The engine configuration: variable lists and the uniqueness check.      *)

MaxInputs == 3      \* inference is called with 0..MaxInputs values

\* The variables a caller passes to add_input_variable/add_output_variable:
\* the default None, or a variable a builder returned.
AddableInputs ==
    {None} \cup { InputVariable(nm, I(0), I(1), <<>>) : nm \in Names }

AddableOutputs ==
    {None} \cup { OutputVariable(nm, I(0), I(1), <<>>) : nm \in Names }

\* The value sequences a caller passes to inference: the default None, or
\* <<base + 1, ..., base + n>>, so that every position holds its own value
\* and two calls can be told apart.
InputSeqs == { [i \in 1..n |-> I(base + i)] : n \in 0..MaxInputs, base \in {0, 10} }

InferenceArgs == {None} \cup { Some(v) : v \in InputSeqs }

\* _is_valid_variable_name as it would be if it looked at the first entry only.
_is_valid_variable_name_first_only(variable_name, set_variable_name) ==
    \A i \in 1..Len(set_variable_name) : i = 1 => set_variable_name[i].name # variable_name

_is_valid_variable_name(variable_name, set_variable_name) ==
    \A i \in 1..Len(set_variable_name) : set_variable_name[i].name # variable_name

\* How add_input_variable / add_output_variable end on the list they check:
\* variable.name of None raises AttributeError, a repeated name ValueError.
AddOutcome(variable, variables) ==
    IF variable = None THEN
        [raised |-> "AttributeError", variables |-> variables]
    ELSE IF ~ _is_valid_variable_name(variable.name, variables) THEN
        [raised |-> "ValueError", variables |-> variables]
    ELSE
        [raised |-> "none", variables |-> Append(variables, variable)]

add_input_variable ==
    \E variable \in AddableInputs :
        LET res == AddOutcome(variable, input_variables) IN
        /\ input_variables' = res.variables
        /\ last' = [op |-> "add_input_variable", variable |-> variable,
                    raised |-> res.raised]
        /\ UNCHANGED <<output_variables, rule_block, heap, rule_blocks, output>>
        /\ UNCHANGED <<argVars, mfs, mfsPrev, ret, concVars>>

add_output_variable ==
    \E variable \in AddableOutputs :
        LET res == AddOutcome(variable, output_variables) IN
        /\ output_variables' = res.variables
        /\ last' = [op |-> "add_output_variable", variable |-> variable,
                    raised |-> res.raised]
        /\ UNCHANGED <<input_variables, rule_block, heap, rule_blocks, output>>
        /\ UNCHANGED <<argVars, mfs, mfsPrev, ret, concVars>>

----------------------------------------------------------------------------
(* Inference.                                                              *)

\* get_input_variable_names as it would be if it listed the names backwards.
get_input_variable_names_reversed(ins) == [i \in 1..Len(ins) |-> ins[Len(ins) + 1 - i].name]

get_input_variable_names(ins) == [i \in 1..Len(ins) |-> ins[i].name]

get_output_variable_names(outs) == [i \in 1..Len(outs) |-> outs[i].name]

\* engine.input_variable(name) / engine.output_variable(name): the position
\* of the first variable of the list with that name.
VariableNamed(variables, name) ==
    CHOOSE i \in 1..Len(variables) :
        /\ variables[i].name = name
        /\ \A j \in 1..(i - 1) : variables[j].name # name

\* for i in range(n): self.engine.input_variable(inputs_name[i]).value = inputs[i]
\* run from position i on; it stops where inputs_name[i] raises IndexError.
RECURSIVE BindInputs(_, _, _, _)
BindInputs(ins, inputs_name, inputs, i) ==
    IF i > Len(inputs) \/ i > Len(inputs_name) THEN ins
    ELSE BindInputs([ins EXCEPT ![VariableNamed(ins, inputs_name[i])].value = inputs[i]],
                    inputs_name, inputs, i + 1)

\* EngineRules as it would be if the engine activated its first block only.
EngineRules_first_block(blocks, objects) ==
    IF blocks = <<>> THEN <<>>
    ELSE objects[Head(blocks).id].rules

\* The rules engine.process() activates: those of the engine's rule blocks.
RECURSIVE EngineRules(_, _)
EngineRules(blocks, objects) ==
    IF blocks = <<>> THEN <<>>
    ELSE objects[Head(blocks).id].rules \o EngineRules(Tail(blocks), objects)

\* The value engine.process() leaves in an output variable: what the engine
\* computes from the input values and the rules, kept as the term itself.
Defuzzified(name, ins, rules) ==
    [of |-> name, inputs |-> [i \in 1..Len(ins) |-> ins[i].value], rules |-> rules]

\* engine.process(): raises on a rule block that is None, and otherwise
\* gives every output variable its value.
ProcessRaises(blocks) == \E k \in 1..Len(blocks) : blocks[k] = None

Process(ins, outs, blocks, objects) ==
    [k \in 1..Len(outs) |->
        [outs[k] EXCEPT !.value = Defuzzified(outs[k].name, ins, EngineRules(blocks, objects))]]

\* OutputRead as it would be if it read the last output variable.
OutputRead_last(outs) ==
    LET output_name == get_output_variable_names(outs)
    IN  outs[VariableNamed(outs, output_name[Len(output_name)])].value

\* self.output = self.engine.output_variable(output_name[0]).value
OutputRead(outs) ==
    LET output_name == get_output_variable_names(outs)
    IN  outs[VariableNamed(outs, output_name[1])].value

\* The whole of inference(inputs): the state it leaves and how it ends.
Inference(inputs, ins, outs, blocks, objects, out) ==
    IF inputs = None THEN
        [raised |-> "TypeError", evaluated |-> FALSE, ins |-> ins, outs |-> outs, out |-> out]
    ELSE
        LET bound == BindInputs(ins, get_input_variable_names(ins), inputs.v, 1) IN
        IF Len(inputs.v) > Len(ins) THEN
            [raised |-> "IndexError", evaluated |-> FALSE,
             ins |-> bound, outs |-> outs, out |-> out]
        ELSE IF ProcessRaises(blocks) THEN
            [raised |-> "AttributeError", evaluated |-> FALSE,
             ins |-> bound, outs |-> outs, out |-> out]
        ELSE
            LET done == Process(bound, outs, blocks, objects) IN
            IF Len(done) = 0 THEN
                [raised |-> "IndexError", evaluated |-> TRUE,
                 ins |-> bound, outs |-> done, out |-> out]
            ELSE
                [raised |-> "none", evaluated |-> TRUE,
                 ins |-> bound, outs |-> done, out |-> OutputRead(done)]

inference(args) ==
    \E inputs \in args :
        LET res == Inference(inputs, input_variables, output_variables,
                             rule_blocks, heap, output) IN
        /\ input_variables' = res.ins
        /\ output_variables' = res.outs
        /\ output' = res.out
        /\ last' = [op |-> "inference", inputs |-> inputs, raised |-> res.raised,
                    evaluated |-> res.evaluated]
        /\ UNCHANGED <<rule_block, heap, rule_blocks>>
        /\ UNCHANGED <<argVars, mfs, mfsPrev, ret, concVars>>

----------------------------------------------------------------------------
(* Spec: a FIS object whose caller registers variables and runs inference. *)

IdleCaller ==
    /\ labels = <<>>
    /\ minimum = I(0)
    /\ maximum = I(1)
    /\ ratio = Half
    /\ overlap = I(0)
    /\ mfs = NoCall
    /\ mfsPrev = NoCall
    /\ ret = NoCall

Init == FisInit /\ IdleCaller /\ NoCallers

Next == add_input_variable \/ add_output_variable \/ inference(InferenceArgs)

Spec == Init /\ [][Next]_vars

----------------------------------------------------------------------------
(* Rule blocks and rule assignment.                                        *)

MaxBlocks == 2      \* create_rule_block and add_rule_block are called up to MaxBlocks times each
MaxRules == 2       \* rule lists of length 0..MaxRules

\* A reference to the RuleBlock object heap[k].
Ref(k) == [kind |-> "RuleBlock", id |-> k]

\* A rule string "if <if> is ... then <then> is ...", by the variables it names.
RuleTexts == { [if |-> a, then |-> b] : a \in Names, b \in {"x"} }

RECURSIVE SeqsUpTo(_, _)
SeqsUpTo(S, n) ==
    IF n = 0 THEN { <<>> }
    ELSE LET shorter == SeqsUpTo(S, n - 1)
         IN  shorter \cup { Append(q, e) : q \in { t \in shorter : Len(t) = n - 1 }, e \in S }

\* The rule lists a caller passes: the default None, or a list of up to
\* MaxRules rule strings, none of them twice.
RuleLists ==
    { l \in SeqsUpTo(RuleTexts, MaxRules) : \A i, j \in 1..Len(l) : i # j => l[i] # l[j] }

RuleListArgs == {None} \cup { Some(l) : l \in RuleLists }

\* fl.Rule.create(rule, engine) parses the text against the variables of
\* the engine and raises when it names a variable the engine does not hold.
Compiles(rule, ins, outs) ==
    /\ \E i \in 1..Len(ins) : ins[i].name = rule.if
    /\ \E i \in 1..Len(outs) : outs[i].name = rule.then

Rule(text) == [kind |-> "Rule", text |-> text]

\* for rule in rule_list: self.rule_block.rules.append(fl.Rule.create(...))
\* run from position i on: the rules it appends until one fails to compile.
RECURSIVE AppendRules(_, _, _, _, _)
AppendRules(rules, rule_list, ins, outs, i) ==
    IF i > Len(rule_list) THEN [raised |-> "none", rules |-> rules]
    ELSE IF ~ Compiles(rule_list[i], ins, outs)
         THEN [raised |-> "RuleCompilationError", rules |-> rules]
    ELSE AppendRules(Append(rules, Rule(rule_list[i])), rule_list, ins, outs, i + 1)

\* AssignRules as it would be if the rules were not cleared first.
AssignRules_no_clear(rules, rule_list, ins, outs) ==
    IF rule_list = None THEN [raised |-> "TypeError", rules |-> rules]
    ELSE AppendRules(rules, rule_list.v, ins, outs, 1)

\* The whole of add_rules_from_list(rule_list) on the rules the current
\* block holds: the rules it leaves there and how it ends.
AssignRules(rules, rule_list, ins, outs) ==
    IF rule_list = None THEN [raised |-> "TypeError", rules |-> <<>>]
    ELSE AppendRules(<<>>, rule_list.v, ins, outs, 1)

create_rule_block ==
    /\ Len(heap) < MaxBlocks
    /\ heap' = Append(heap, [rules |-> <<>>])
    /\ rule_block' = Ref(Len(heap) + 1)
    /\ last' = [op |-> "create_rule_block", raised |-> "none"]
    /\ UNCHANGED <<input_variables, output_variables, rule_blocks, output>>
    /\ UNCHANGED <<argVars, mfs, mfsPrev, ret, concVars>>

add_rule_block ==
    /\ Len(rule_blocks) < MaxBlocks
    /\ rule_blocks' = Append(rule_blocks, rule_block)
    /\ last' = [op |-> "add_rule_block", raised |-> "none"]
    /\ UNCHANGED <<input_variables, output_variables, rule_block, heap, output>>
    /\ UNCHANGED <<argVars, mfs, mfsPrev, ret, concVars>>

add_rules_from_list ==
    \E rule_list \in RuleListArgs :
        /\ IF rule_block = None THEN
               /\ last' = [op |-> "add_rules_from_list", rule_list |-> rule_list,
                           raised |-> "AttributeError"]
               /\ heap' = heap
           ELSE
               LET res == AssignRules(heap[rule_block.id].rules, rule_list,
                                      input_variables, output_variables) IN
               /\ last' = [op |-> "add_rules_from_list", rule_list |-> rule_list,
                           raised |-> res.raised]
               /\ heap' = [heap EXCEPT ![rule_block.id].rules = res.rules]
        /\ UNCHANGED <<input_variables, output_variables, rule_block, rule_blocks, output>>
        /\ UNCHANGED <<argVars, mfs, mfsPrev, ret, concVars>>

----------------------------------------------------------------------------
(* SpecRules: a FIS object whose variables are registered, and whose       *)
(* caller creates and registers rule blocks, assigns rules and runs        *)
(* inference.                                                              *)

\* Variable lists that add_input_variable / add_output_variable leave.
RegisteredInputs ==
    { <<InputVariable("x", I(0), I(1), <<>>)>>,
      <<InputVariable("x", I(0), I(1), <<>>), InputVariable("y", I(0), I(1), <<>>)>> }

RegisteredOutputs ==
    { <<OutputVariable("x", I(0), I(1), <<>>)>>,
      <<OutputVariable("y", I(0), I(1), <<>>), OutputVariable("x", I(0), I(1), <<>>)>> }

\* The caller passes inference one value per registered input variable.
MatchingArgs == { a \in InferenceArgs \ {None} : Len(a.v) = Len(input_variables) }

RulesInit ==
    /\ input_variables \in RegisteredInputs
    /\ output_variables \in RegisteredOutputs
    /\ rule_block = None
    /\ heap = <<>>
    /\ rule_blocks = <<>>
    /\ output = I(0)
    /\ last = [op |-> "__init__"]
    /\ IdleCaller
    /\ NoCallers

RulesNext ==
    create_rule_block \/ add_rule_block \/ add_rules_from_list \/ inference(MatchingArgs)

SpecRules == RulesInit /\ [][RulesNext]_vars

----------------------------------------------------------------------------
(* Claims about the variable builders (SpecBuild).                         *)

\* A builder call was made with both a supported shape and explicit terms.
BothGiven ==
    /\ ret.fn # "none"
    /\ ret.auto_mf_type \in Shapes
    /\ ret.terms # None

\* The kind of term each shape's synthesizer builds.
KindOf(shape) ==
    CASE shape = "triangular" -> "Triangle"
      [] shape = "trapezoid" -> "Trapezoid"
      [] shape = "gaussian" -> "Gaussian"

\* The terms each shape's synthesizer builds from the caller's arguments.
SynthesizedFor(shape) ==
    CASE shape = "triangular" -> _create_triangular_mf(labels, minimum, maximum, overlap)
      [] shape = "trapezoid" -> _create_trapezoid_mf(labels, minimum, maximum, ratio, overlap)
      [] shape = "gaussian" -> _create_gaussian_mf(labels, minimum, maximum, overlap)

\* C1 as stated: a builder called with both explicit terms and a supported
\* shape (and labels to synthesize from) returns a variable that holds
\* exactly the supplied terms, in order.
C1_TermsVerbatim ==
    (BothGiven /\ labels # <<>>) =>
        /\ ret.raised = "none"
        /\ ret.value # None
        /\ ret.value.terms = ret.terms.v

\* C1 as amended: a builder called with both explicit terms and a supported
\* shape lets the shape win.  With a non-empty label sequence it returns a
\* variable holding one synthesized term of the shape's kind per label (the
\* terms the shape's synthesizer builds from labels, bounds, overlap and
\* ratio) and ignores the supplied terms; with an empty label sequence the
\* synthesizer's division raises.  The supplied terms are held verbatim
\* only when auto_mf_type is unset.
C1_ShapeOverridesTerms ==
    /\ BothGiven =>
        IF labels = <<>> THEN
            ret.raised = "ZeroDivisionError"
        ELSE
            /\ ret.raised = "none"
            /\ ret.value # None
            /\ Len(ret.value.terms) = Len(labels)
            /\ \A k \in 1..Len(labels) :
                /\ ret.value.terms[k].kind = KindOf(ret.auto_mf_type)
                /\ ret.value.terms[k].name = labels[k]
            /\ ret.value.terms = SynthesizedFor(ret.auto_mf_type)
    /\ (ret.fn # "none" /\ ret.auto_mf_type = "None" /\ ret.terms # None) =>
        /\ ret.raised = "none"
        /\ ret.value # None
        /\ ret.value.terms = ret.terms.v

\* C1's case: create_input_variable, called with the trapezoid shape and two
\* explicit terms, returned a variable whose terms are not the supplied ones.
C1_Witness ==
    /\ BothGiven
    /\ ret.fn = "create_input_variable"
    /\ ret.auto_mf_type = "trapezoid"
    /\ Len(ret.terms.v) = 2
    /\ ret.raised = "none"
    /\ ret.value # None
    /\ Len(ret.value.terms) = 3
    /\ ret.value.terms # ret.terms.v

\* C6 as stated: a builder called with an unsupported shape and no explicit
\* terms ends with an error; it never returns normally without a variable.
C6_InvalidShapeRaises ==
    (/\ ret.fn # "none"
     /\ ret.auto_mf_type \notin (Shapes \cup {"None"})
     /\ ret.terms = None)
    => ret.raised # "none"

----------------------------------------------------------------------------
(* Claims about the synthesizers (SpecSynth).                              *)

\* C4 as stated: for n >= 2 labels the trapezoid synthesizer gives each term
\* the feet of the triangular synthesizer; an interior term has shoulders
\* mid -/+ ratio*(d-a)/2; the first term has a = b = minimum and
\* c = minimum + ratio*(d - minimum); the last term mirrors it with
\* c = d = maximum and b = maximum - ratio*(maximum - a).
C4_TrapezoidGeometry ==
    (mfs.fn = "_create_trapezoid_mf" /\ mfs.raised = "none" /\ Len(labels) >= 2) =>
        LET n == Len(labels)
            tri == _create_triangular_mf(labels, minimum, maximum, mfs.overlap)
        IN  \A k \in 1..n :
                LET t == mfs.terms[k]
                    mid == RMul(RAdd(t.a, t.d), Half)
                    half_top == RMul(RMul(ratio, RSub(t.d, t.a)), Half)
                IN  /\ t.a = tri[k].a
                    /\ t.d = tri[k].c
                    /\ (k = 1) =>
                        /\ t.a = minimum
                        /\ t.b = minimum
                        /\ t.c = RAdd(minimum, RMul(ratio, RSub(t.d, minimum)))
                    /\ (k = n) =>
                        /\ t.c = maximum
                        /\ t.d = maximum
                        /\ t.b = RSub(maximum, RMul(ratio, RSub(maximum, t.a)))
                    /\ (1 < k /\ k < n) =>
                        /\ t.b = RSub(mid, half_top)
                        /\ t.c = RAdd(mid, half_top)

\* C5 as stated: every synthesized term has a non-decreasing parameter
\* tuple, a <= b <= c for a triangular term and a <= b <= c <= d for a
\* trapezoid term, whatever the labels, overlap >= 0 and ratio in [0,1].
C5_Monotone ==
    /\ (mfs.fn = "_create_triangular_mf" /\ mfs.raised = "none") =>
        \A k \in 1..Len(mfs.terms) :
            LET t == mfs.terms[k] IN RLe(t.a, t.b) /\ RLe(t.b, t.c)
    /\ (mfs.fn = "_create_trapezoid_mf" /\ mfs.raised = "none") =>
        \A k \in 1..Len(mfs.terms) :
            LET t == mfs.terms[k] IN RLe(t.a, t.b) /\ RLe(t.b, t.c) /\ RLe(t.c, t.d)

----------------------------------------------------------------------------
(* Claims about the variable lists and inference (Spec).                   *)

Distinct(variables) ==
    \A i, j \in 1..Len(variables) : i # j => variables[i].name # variables[j].name

HasName(variables, name) == \E i \in 1..Len(variables) : variables[i].name = name

\* The step is an inference call with a number of values different from the
\* number of registered input variables.
MismatchedCall ==
    /\ last'.op = "inference"
    /\ last'.inputs # None
    /\ Len(last'.inputs.v) # Len(input_variables)

\* C2 as stated: inference called with fewer or more values than there are
\* registered input variables is rejected with an error before any binding:
\* no input variable's value changes, the engine is not evaluated and the
\* stored output is unchanged.
C2_MismatchRejected ==
    [][MismatchedCall =>
        /\ last'.raised # "none"
        /\ ~ last'.evaluated
        /\ input_variables' = input_variables
        /\ output_variables' = output_variables
        /\ output' = output]_vars

\* What a step that is a call of add_input_variable / add_output_variable
\* with a variable must do: raise and leave both lists alone when the name
\* is in its own list, and append otherwise (also when the name is in the
\* other list).
C7_AddStep ==
    /\ (last'.op = "add_input_variable" /\ last'.variable # None) =>
        IF HasName(input_variables, last'.variable.name) THEN
            /\ last'.raised = "ValueError"
            /\ input_variables' = input_variables
            /\ output_variables' = output_variables
        ELSE
            /\ last'.raised = "none"
            /\ input_variables' = Append(input_variables, last'.variable)
            /\ output_variables' = output_variables
    /\ (last'.op = "add_output_variable" /\ last'.variable # None) =>
        IF HasName(output_variables, last'.variable.name) THEN
            /\ last'.raised = "ValueError"
            /\ input_variables' = input_variables
            /\ output_variables' = output_variables
        ELSE
            /\ last'.raised = "none"
            /\ output_variables' = Append(output_variables, last'.variable)
            /\ input_variables' = input_variables

\* C7: after any sequence of add_input_variable and add_output_variable
\* calls the names in the input-variable list are pairwise distinct, and so
\* are the names in the output-variable list; an add whose name is already
\* in its own list raises and leaves both lists unchanged, and a name that
\* is only in the other list is accepted.
C7_NamesDistinct ==
    /\ [](Distinct(input_variables) /\ Distinct(output_variables))
    /\ [][C7_AddStep]_vars

\* C7's case: both names are registered as inputs, one of them also as an
\* output, and the last add_input_variable was refused for its name.
C7_Witness ==
    /\ Len(input_variables) = 2
    /\ HasName(output_variables, input_variables[1].name)
    /\ last.op = "add_input_variable"
    /\ last.raised = "ValueError"

\* C8: an inference call with as many values as there are registered input
\* variables leaves inputs[i] in the i-th variable of the list (the i-th one
\* added), whatever the variables are called.
C8_PositionalBinding ==
    (/\ last.op = "inference"
     /\ last.inputs # None
     /\ Len(last.inputs.v) = Len(input_variables))
    => \A i \in 1..Len(input_variables) : input_variables[i].value = last.inputs.v[i]

\* C8's case: "y" was added before "x", and inference([1, 2]) gave 1 to "y"
\* and 2 to "x".
C8_Witness ==
    /\ last.op = "inference"
    /\ last.raised = "none"
    /\ Len(input_variables) = 2
    /\ input_variables[1].name = "y"
    /\ input_variables[2].name = "x"
    /\ last.inputs = Some(<<I(1), I(2)>>)
    /\ input_variables[1].value = I(1)
    /\ input_variables[2].value = I(2)

\* C9: after a successful inference call the stored output is the value the
\* evaluation left in the output variable added first (computed from the
\* input values of this call), and it is not the value of any later one.
C9_FirstOutputOnly ==
    (last.op = "inference" /\ last.raised = "none") =>
        /\ Len(output_variables) >= 1
        /\ last.evaluated
        /\ output = output_variables[1].value
        /\ output.of = output_variables[1].name
        /\ output.inputs = [i \in 1..Len(input_variables) |-> input_variables[i].value]
        /\ \A k \in 2..Len(output_variables) : output # output_variables[k].value

\* C9's case: two output variables are registered and an inference call
\* succeeded.
C9_Witness ==
    /\ last.op = "inference"
    /\ last.raised = "none"
    /\ Len(output_variables) = 2
    /\ Len(input_variables) = 1
    /\ output = output_variables[1].value
    /\ output_variables[2].value # nan

----------------------------------------------------------------------------
(* Claims about rule assignment (SpecRules).                               *)

\* The rules of the block self.rule_block refers to.
CurrentRules(objects) == objects[rule_block.id].rules

\* C3 as stated: when a rule of the list fails to compile, the call raises
\* and no partial rule list is installed: the block's rule list is not left
\* holding the rules compiled before the failure (it is what it was before
\* the call, or at least not a non-empty part of the new list).
C3_NoPartialRuleList ==
    [][(last'.op = "add_rules_from_list" /\ last'.raised = "RuleCompilationError") =>
        \/ CurrentRules(heap') = CurrentRules(heap)
        \/ CurrentRules(heap') = <<>>]_vars

\* C10: after a successful add_rules_from_list(L) the current block's rule
\* list is exactly the compiled rules of L in order, whatever it held
\* before; an empty L leaves an empty rule list and raises nothing.
C10_RulesReplaced ==
    /\ (last.op = "add_rules_from_list" /\ last.raised = "none") =>
        /\ Len(CurrentRules(heap)) = Len(last.rule_list.v)
        /\ \A k \in 1..Len(last.rule_list.v) :
            CurrentRules(heap)[k] = Rule(last.rule_list.v[k])
    /\ (/\ last.op = "add_rules_from_list"
        /\ rule_block # None
        /\ last.rule_list = Some(<<>>))
       => (last.raised = "none" /\ CurrentRules(heap) = <<>>)

\* C10's case: a list of two rules was assigned with success.
C10_Witness ==
    /\ last.op = "add_rules_from_list"
    /\ last.raised = "none"
    /\ Len(last.rule_list.v) = 2
    /\ Len(CurrentRules(heap)) = 2
    /\ CurrentRules(heap)[1].text.if = "y"

----------------------------------------------------------------------------
(* Claims about the triangular and gaussian partitions.                    *)

\* C11: a triangular partition built with overlap 0 over n >= 2 labels and
\* minimum < maximum tiles the universe: with step = (maximum - minimum)/n,
\* the right foot of every term is the left foot of the next one, the first
\* term is (minimum, minimum, minimum + step), the last one is
\* (maximum - step, maximum, maximum), and the interior term of index i
\* (counted from 0) peaks at minimum + step * (i + 1/2).
C11_TriangularTiling ==
    (/\ mfs.fn = "_create_triangular_mf"
     /\ mfs.raised = "none"
     /\ mfs.overlap = I(0)
     /\ Len(labels) >= 2
     /\ RLt(minimum, maximum))
    => LET n == Len(labels)
           t == mfs.terms
           step == RDiv(RSub(maximum, minimum), I(n))
       IN  /\ Len(t) = n
           /\ \A k \in 1..(n - 1) : t[k].c = t[k + 1].a
           /\ t[1] = Triangle(labels[1], minimum, minimum, RAdd(minimum, step))
           /\ t[n] = Triangle(labels[n], RSub(maximum, step), maximum, maximum)
           /\ \A k \in 2..(n - 1) :
                  t[k].b = RAdd(minimum, RMul(step, RAdd(I(k - 1), Half)))

\* C11's case: three labels over [-1, 2] with overlap 0, whose interior
\* term is (0, 1/2, 1).
C11_Witness ==
    /\ mfs.fn = "_create_triangular_mf"
    /\ mfs.raised = "none"
    /\ mfs.overlap = I(0)
    /\ Len(labels) = 3
    /\ minimum = I(-1)
    /\ maximum = I(2)
    /\ mfs.terms[2] = Triangle(labels[2], I(0), Half, I(1))

\* The triangular envelope of a gaussian call: the triangular terms of the
\* same labels, bounds and overlap.
Envelope == _create_triangular_mf(labels, minimum, maximum, mfs.overlap)

\* The foot of the envelope the gaussian synthesizer uses for the k-th label:
\* the left one for the last of several labels, the right one otherwise.
GoverningFoot(k) ==
    IF k = Len(labels) /\ k > 1 THEN Envelope[k].a ELSE Envelope[k].c

GaussianCall ==
    /\ mfs.fn = "_create_gaussian_mf"
    /\ mfs.raised = "none"
    /\ RLe(I(0), mfs.overlap)
    /\ RLt(minimum, maximum)

Distance(x, y) == IF RLt(x, y) THEN RSub(y, x) ELSE RSub(x, y)

\* C12 as stated: every gaussian term's mean is the peak of the triangular
\* term of the same label, and its std_dev is the distance between that peak
\* and the governing foot divided by 3, which is not negative.
C12_StdDevIsDistance ==
    GaussianCall =>
        \A k \in 1..Len(labels) :
            /\ mfs.terms[k].mean = Envelope[k].b
            /\ mfs.terms[k].std_dev =
                   RDiv(Distance(Envelope[k].b, GoverningFoot(k)), I(3))
            /\ RLe(I(0), mfs.terms[k].std_dev)

\* C12 amended: every gaussian term's mean is the peak of the triangular term
\* of the same label, and its std_dev is the signed difference peak - foot
\* divided by 3: positive for the last of several labels (peak - left foot),
\* negative for every other label (peak - right foot); its magnitude is the
\* distance divided by 3.
C12_StdDevSigned ==
    GaussianCall =>
        \A k \in 1..Len(labels) :
            LET g == mfs.terms[k]
                last_of_many == k = Len(labels) /\ k > 1
            IN  /\ g.mean = Envelope[k].b
                /\ g.std_dev = RDiv(RSub(Envelope[k].b, GoverningFoot(k)), I(3))
                /\ Distance(g.std_dev, I(0)) =
                       RDiv(Distance(Envelope[k].b, GoverningFoot(k)), I(3))
                /\ IF last_of_many THEN RLt(I(0), g.std_dev)
                                   ELSE RLt(g.std_dev, I(0))

\* C12's case: three labels over [-1, 2] with overlap 1/2: the std_dev of the
\* first label is -1/2, of the interior one -1/3, of the last one 1/2.
C12_Witness ==
    /\ GaussianCall
    /\ mfs.overlap = Half
    /\ Len(labels) = 3
    /\ minimum = I(-1)
    /\ maximum = I(2)
    /\ mfs.terms[1].std_dev = Rat(-1, 2)
    /\ mfs.terms[2].std_dev = Rat(-1, 3)
    /\ mfs.terms[3].std_dev = Half

----------------------------------------------------------------------------
(* Claims about the rule blocks of the engine.                             *)

\* C13: after any sequence of create_rule_block, add_rule_block and
\* add_rules_from_list calls the engine holds at most one rule block.
C13_AtMostOneRuleBlock == Len(rule_blocks) <= 1

----------------------------------------------------------------------------
(* Claims about the variable builders' argument check.                     *)

\* C14: create_input_variable and create_output_variable called with neither
\* a shape nor explicit terms raise (ValueError: the terms are missing) and
\* return no variable, whatever the other arguments are.
C14_MissingTermsRaises ==
    (/\ ret.fn \in {"create_input_variable", "create_output_variable"}
     /\ ret.auto_mf_type = "None"
     /\ ret.terms = None)
    => /\ ret.raised = "ValueError"
       /\ ret.value = None

\* C14's case: create_output_variable with labels but no shape and no terms
\* raised.
C14_Witness ==
    /\ ret.fn = "create_output_variable"
    /\ ret.auto_mf_type = "None"
    /\ ret.terms = None
    /\ Len(labels) = 2
    /\ ret.raised = "ValueError"
    /\ ret.value = None

----------------------------------------------------------------------------
(* Claims relating two synthesizer calls that differ in the overlap.       *)

RightFoot(term) == IF term.kind = "Triangle" THEN term.c ELSE term.d

SupportWidth(term) == RSub(RightFoot(term), term.a)

\* The first term starts and peaks (or has its left shoulder) at minimum; the
\* last term ends and peaks (or has its right shoulder) at maximum.
Anchored(terms) ==
    LET first == terms[1]
        final == terms[Len(terms)]
    IN  /\ first.a = minimum
        /\ first.b = minimum
        /\ RightFoot(final) = maximum
        /\ IF final.kind = "Triangle" THEN final.b = maximum
                                       ELSE final.c = maximum

\* C15: of two triangular or two trapezoid calls with the same labels
\* (n >= 3), bounds (and ratio) and overlaps 0 <= overlap1 < overlap2, every
\* interior term has a strictly larger support width under overlap2, and in
\* both results the first term is anchored at minimum and the last one at
\* maximum.
C15_OverlapWidensInterior ==
    (/\ mfs.fn \in {"_create_triangular_mf", "_create_trapezoid_mf"}
     /\ mfsPrev.fn = mfs.fn
     /\ mfs.raised = "none"
     /\ mfsPrev.raised = "none"
     /\ Len(labels) >= 3
     /\ RLe(I(0), mfsPrev.overlap)
     /\ RLt(mfsPrev.overlap, mfs.overlap))
    => /\ \A k \in 2..(Len(labels) - 1) :
              RLt(SupportWidth(mfsPrev.terms[k]), SupportWidth(mfs.terms[k]))
       /\ Anchored(mfsPrev.terms)
       /\ Anchored(mfs.terms)

\* C15's case: three labels over [-1, 2], the trapezoid partition built with
\* overlap 0 and then with overlap 1/2: the interior support grows from 1 to 2.
C15_Witness ==
    /\ mfs.fn = "_create_trapezoid_mf"
    /\ mfsPrev.fn = "_create_trapezoid_mf"
    /\ Len(labels) = 3
    /\ minimum = I(-1)
    /\ maximum = I(2)
    /\ mfsPrev.overlap = I(0)
    /\ mfs.overlap = Half
    /\ SupportWidth(mfsPrev.terms[2]) = I(1)
    /\ SupportWidth(mfs.terms[2]) = I(2)
    /\ Anchored(mfs.terms)

\* self.rule_block is one of the engine's rule blocks.
Registered ==
    /\ rule_block # None
    /\ \E k \in 1..Len(rule_blocks) : rule_blocks[k] = rule_block

\* add_rule_block was called after a create_rule_block: the engine holds a
\* rule block that is not None.
AddedAfterCreate == \E k \in 1..Len(rule_blocks) : rule_blocks[k] # None

\* part occurs in whole as a run of consecutive elements.
Contains(whole, part) ==
    \E off \in 0..(Len(whole) - Len(part)) :
        SubSeq(whole, off + 1, off + Len(part)) = part

----------------------------------------------------------------------------
(* SpecConc: two callers run inference at the same time, on one FIS object *)
(* or on one object each.  A call is the steps of src/FIS.py:708-719, and  *)
(* the steps of the two calls interleave.                                  *)

Callers == {1, 2}

EngineOf_class_attribute(object) == 1

\* self.engine of a FIS object: every object constructs its own engine.
EngineOf(object) == object

\* A FIS object with its variables registered and no rule block.
Instance(ins, outs) ==
    [input_variables |-> ins, output_variables |-> outs, rule_blocks |-> <<>>,
     heap |-> <<>>, output |-> I(0)]

\* A caller about to call inference(inputs) on the FIS object self.
Pending(object, inputs) ==
    [pc |-> "call", self |-> object, inputs |-> inputs, n |-> 0,
     inputs_name |-> <<>>, i |-> 0, result |-> None]

ConcInit ==
    /\ FisInit
    /\ IdleCaller
    /\ \E ins \in RegisteredInputs, outs \in RegisteredOutputs, shared \in BOOLEAN :
          /\ instances = IF shared THEN <<Instance(ins, outs)>>
                                   ELSE <<Instance(ins, outs), Instance(ins, outs)>>
          /\ calls \in { [t \in Callers |-> Pending(IF shared THEN 1 ELSE t, v[t])] :
                            v \in [Callers -> { w \in InputSeqs : Len(w) = Len(ins) }] }

\* n = len(inputs); inputs_name = self.get_input_variable_names()
EnterInference(t) ==
    LET c == calls[t]
        fis == instances[EngineOf(c.self)]
    IN  /\ c.pc = "call"
        /\ calls' = [calls EXCEPT ![t] =
                        [c EXCEPT !.pc = "bind", !.n = Len(c.inputs), !.i = 0,
                                  !.inputs_name = get_input_variable_names(fis.input_variables)]]
        /\ UNCHANGED <<instances, fisVars, argVars, mfs, mfsPrev, ret>>

\* One turn of the loop: self.engine.input_variable(inputs_name[i]).value = inputs[i]
BindInput(t) ==
    LET c == calls[t]
        e == EngineOf(c.self)
        ins == instances[e].input_variables
    IN  /\ c.pc = "bind"
        /\ c.i < c.n
        /\ instances' = [instances EXCEPT ![e].input_variables =
                [ins EXCEPT ![VariableNamed(ins, c.inputs_name[c.i + 1])].value =
                                c.inputs[c.i + 1]]]
        /\ calls' = [calls EXCEPT ![t].i = c.i + 1]
        /\ UNCHANGED <<fisVars, argVars, mfs, mfsPrev, ret>>

\* The loop is over: self.engine.process()
ProcessEngine(t) ==
    LET c == calls[t]
        e == EngineOf(c.self)
        fis == instances[e]
    IN  /\ c.pc = "bind"
        /\ c.i = c.n
        /\ instances' = [instances EXCEPT ![e].output_variables =
                Process(fis.input_variables, fis.output_variables, fis.rule_blocks, fis.heap)]
        /\ calls' = [calls EXCEPT ![t].pc = "read"]
        /\ UNCHANGED <<fisVars, argVars, mfs, mfsPrev, ret>>

\* self.output = self.engine.output_variable(output_name[0]).value, and the
\* call returns: its result is the value it stored.
ReadOutput(t) ==
    LET c == calls[t]
        e == EngineOf(c.self)
        value == OutputRead(instances[e].output_variables)
    IN  /\ c.pc = "read"
        /\ instances' = [instances EXCEPT ![e].output = value]
        /\ calls' = [calls EXCEPT ![t] = [c EXCEPT !.pc = "done", !.result = value]]
        /\ UNCHANGED <<fisVars, argVars, mfs, mfsPrev, ret>>

ConcNext ==
    \E t \in Callers :
        EnterInference(t) \/ BindInput(t) \/ ProcessEngine(t) \/ ReadOutput(t)

SpecConc == ConcInit /\ [][ConcNext]_vars

\* The callers the caller t shares its FIS object with (t among them).
SharingWith(t) == { u \in Callers : calls[u].self = calls[t].self }

\* C16: when every caller uses its own FIS object, the result of every
\* finished inference call is the engine's value for that call's own inputs;
\* in general every input value a result was computed from was bound, at
\* that position, by a caller of the same FIS object.
C16_ResultFromOwnObject ==
    \A t \in Callers :
        calls[t].pc = "done" =>
            /\ SharingWith(t) = {t} =>
                  /\ calls[t].result.inputs = calls[t].inputs
                  /\ calls[t].result.of = instances[calls[t].self].output_variables[1].name
                  /\ calls[t].result = instances[calls[t].self].output
            /\ \A i \in 1..Len(calls[t].inputs) :
                  \E u \in SharingWith(t) : calls[t].result.inputs[i] = calls[u].inputs[i]

\* C16's case: two callers share one FIS object with two input variables;
\* caller 1 passed (1, 2), caller 2 passed (11, 12), and caller 1's finished
\* call has a result computed from (11, 12).
C16_Witness ==
    /\ Len(instances) = 1
    /\ calls[1].self = calls[2].self
    /\ calls[1].pc = "done"
    /\ calls[1].inputs = <<I(1), I(2)>>
    /\ calls[2].inputs = <<I(11), I(12)>>
    /\ calls[1].result.inputs = calls[2].inputs

====
